---- MODULE Spec2Model ----
(***************************************************************************)
(* A model of the image-transformation request pipeline of nano-banana-edit *)
(* (submit -> remote call with retry -> optional crop -> present).          *)
(*                                                                          *)
(* Messages are TLA+ strings and String.prototype.includes is the real      *)
(* substring test, so the classification of an error by the markers it      *)
(* contains is computed as the code computes it (case-sensitively).  The    *)
(* two emoji that open some messages of the source are written "[warn] "   *)
(* and "[shield] ": the module is ASCII; no marker contains either.         *)
(***************************************************************************)
EXTENDS Integers, Sequences, FiniteSets, TLC

(***************************************************************************)
(* Nullable values: null/undefined is the empty tuple, a value v is <<v>>.  *)
(***************************************************************************)
None == << >>
Some(v) == << v >>

(***************************************************************************)
(* Strings                                                                  *)
(***************************************************************************)
\* String.prototype.includes(k)
Includes(s, k) ==
    \E str \in {s}, key \in {k} :
        \E p \in 1..(Len(str) - Len(key) + 1) : SubSeq(str, p, p + Len(key) - 1) = key

\* String.prototype.startsWith(k)
StartsWith(s, k) == Len(s) >= Len(k) /\ SubSeq(s, 1, Len(k)) = k

\* String.prototype.trim(), for the blank the inputs can carry (the space)
RECURSIVE Trim(_)
Trim(s) ==
    IF Len(s) = 0 THEN s
    ELSE IF SubSeq(s, 1, 1) = " " THEN Trim(SubSeq(s, 2, Len(s)))
    ELSE IF SubSeq(s, Len(s), Len(s)) = " " THEN Trim(SubSeq(s, 1, Len(s) - 1))
    ELSE s

\* errorMessage.match(/\{[\s\S]*\}/): from the first "{" to the last "}"
\* after it; None when there is no such pair.
JsonMatch(s) ==
    LET opens  == {p \in 1..Len(s) : SubSeq(s, p, p) = "{"}
        closes == {p \in 1..Len(s) : SubSeq(s, p, p) = "}"}
    IN  IF opens = {} THEN None
        ELSE LET first == CHOOSE p \in opens : \A q \in opens : p <= q
                 after == {p \in closes : p > first}
             IN  IF after = {} THEN None
                 ELSE LET last == CHOOSE p \in after : \A q \in after : q <= p
                      IN  Some(SubSeq(s, first, last))

(***************************************************************************)
(* The two service files that differ in behaviour.  unnamed/part_005 is     *)
(* services/geminiService.ts without the API-key lookup: same                *)
(* handleGeminiError, same withRetry, same defaults.                        *)
(***************************************************************************)
SvcEnv == "services/geminiService.ts"
SvcRef == "unnamed/part_001"
Services == {SvcEnv, SvcRef}

\* Error bodies as the @google/genai client reports them: the message of the
\* thrown error is the JSON text of the response body.
JsonUnavailable ==
    "{\"error\":{\"code\":503,\"message\":\"The model is overloaded. Please try again later.\",\"status\":\"UNAVAILABLE\"}}"
JsonInternal ==
    "{\"error\":{\"code\":500,\"message\":\"Internal error encountered.\",\"status\":\"INTERNAL\"}}"

\* JSON.parse on the texts the model's inputs can hand it; every other text
\* the inputs produce is not JSON and JSON.parse throws (ok = FALSE).
JsonParse(s) ==
    IF s = JsonUnavailable
    THEN [ok |-> TRUE, hasError |-> TRUE, code |-> 503, status |-> "UNAVAILABLE",
          message |-> "The model is overloaded. Please try again later."]
    ELSE IF s = JsonInternal
    THEN [ok |-> TRUE, hasError |-> TRUE, code |-> 500, status |-> "INTERNAL",
          message |-> "Internal error encountered."]
    ELSE [ok |-> FALSE, hasError |-> FALSE, code |-> 0, status |-> "", message |-> ""]

(***************************************************************************)
(* Error objects: id is the identity of the object (one per `new Error`),   *)
(* json is what JSON.stringify gives for it ("{}" for a plain Error, whose  *)
(* message is not an enumerable property).                                  *)
(***************************************************************************)
NewError(id, message) == [id |-> id, message |-> message, json |-> "{}"]

\* error.message || error.toString()
MessageOrToString(error) ==
    IF error.message = "" THEN "Error" ELSE error.message

(***************************************************************************)
(* handleGeminiError                                                        *)
(***************************************************************************)
RateLimitMessage(s) ==
    IF s = SvcRef
    THEN "[warn] System Busy. High traffic detected. Please wait 30 seconds and try again."
    ELSE "[warn] High Traffic / Quota Exceeded. The free tier limit for this model has been reached. Please wait a minute and try again."

SafetyMessage ==
    "[shield] Content Blocked. The request was flagged by safety filters. Please try a different prompt."

\* step 1 of handleGeminiError: the rate-limit / quota markers
HasRateLimitMarker(s, errorMessage) ==
    \/ Includes(errorMessage, "429")
    \/ Includes(errorMessage, "RESOURCE_EXHAUSTED")
    \/ Includes(errorMessage, "Quota exceeded")
    \/ (s = SvcRef /\ Includes(errorMessage, "Too Many Requests"))

\* step 2 of handleGeminiError: the safety markers
HasSafetyMarker(errorMessage) ==
    Includes(errorMessage, "SAFETY") \/ Includes(errorMessage, "blocked")

\* step 3 of handleGeminiError: the message after the attempt to read it as
\* JSON.  The `throw` for code 429 sits inside the try whose catch swallows
\* everything, so it leaves errorMessage as it was.
AfterJsonStep(errorMessage) ==
    IF StartsWith(Trim(errorMessage), "{") \/ Includes(errorMessage, "{\"error\":")
    THEN LET jsonMatch == JsonMatch(errorMessage)
             jsonStr   == IF jsonMatch # None THEN jsonMatch[1] ELSE errorMessage
             parsed    == JsonParse(jsonStr)
         IN  IF ~parsed.ok THEN errorMessage
             ELSE IF ~parsed.hasError THEN errorMessage
             ELSE IF parsed.code = 429 \/ parsed.status = "RESOURCE_EXHAUSTED"
                  THEN errorMessage
             ELSE IF parsed.message # "" THEN parsed.message
             ELSE errorMessage
    ELSE errorMessage

\* A plausible slip: the safety test comes first.
ClassifySafetyFirst(s, errorMessage) ==
    IF HasSafetyMarker(errorMessage) THEN "safety"
    ELSE IF HasRateLimitMarker(s, errorMessage) THEN "rate-limit"
    ELSE "other"

\* The class handleGeminiError puts a failure in, by its fixed precedence.
Classify(s, errorMessage) ==
    IF HasRateLimitMarker(s, errorMessage) THEN "rate-limit"
    ELSE IF HasSafetyMarker(errorMessage) THEN "safety"
    ELSE "other"

\* handleGeminiError(error): never returns; the message of the Error it throws.
HandledMessage(s, error) ==
    CHOOSE thrown \in
        { IF class = "rate-limit" THEN RateLimitMessage(s)
          ELSE IF class = "safety" THEN SafetyMessage
          ELSE "Generation Failed: " \o AfterJsonStep(errorMessage) :
              errorMessage \in {MessageOrToString(error)},
              class \in {Classify(s, MessageOrToString(error))} } : TRUE

(***************************************************************************)
(* The provider and the operation that editImage and generateImageFromText *)
(* hand to withRetry                                                       *)
(***************************************************************************)
\* What ai.models.generateContent can do: throw an error with a message, or
\* answer with a response whose first candidate has parts (or has none).
Throws(message) ==
    [kind |-> "throws", message |-> message, hasParts |-> FALSE, parts |-> << >>]
NoParts ==
    [kind |-> "responds", message |-> "", hasParts |-> FALSE, parts |-> << >>]
Responds(parts) ==
    [kind |-> "responds", message |-> "", hasParts |-> TRUE, parts |-> parts]

InlinePart(mimeType, data) ==
    [inlineData |-> Some([mimeType |-> mimeType, data |-> data]), text |-> None]
TextPart(text) == [inlineData |-> None, text |-> Some(text)]
BarePart == [inlineData |-> None, text |-> None]

\* `data:${part.inlineData.mimeType};base64,${part.inlineData.data}`
DataUrl(inlineData) ==
    "data:" \o inlineData.mimeType \o ";base64," \o inlineData.data

\* p.text as a condition: a text that is present and not the empty string
HasText(part) == part.text # None /\ part.text[1] # ""

\* messages generateContent can throw
RateLimitThrows ==
    { "got status: 429 Too Many Requests",
      "RESOURCE_EXHAUSTED",
      "Quota exceeded for quota metric 'Generate Content API requests per minute'" }
TransportThrows ==
    { "fetch failed",
      "got status: 503 Service Unavailable",
      JsonUnavailable }
OtherThrows ==
    { "Too Many Requests",
      JsonInternal,
      "Candidate was blocked due to SAFETY",
      "The request was blocked: fetch failed upstream" }
ProviderThrows == RateLimitThrows \cup TransportThrows \cup OtherThrows

\* texts a model can answer with instead of an image
RefusalTexts ==
    { "I cannot do that.",
      "This request was blocked by our content policy.",
      "I can only return one image, not 429 of them.",
      "Sorry, fetch failed for the image you sent." }

PngA == InlinePart("image/png", "AAAA")
JpegB == InlinePart("image/jpeg", "BBBB")

RefusalOutcomes == { Responds(<< TextPart(t) >>) : t \in RefusalTexts }
EmptyOutcomes ==
    { NoParts, Responds(<< >>), Responds(<< BarePart >>), Responds(<< TextPart("") >>) }
ImageOutcomes ==
    { Responds(<< PngA >>),
      Responds(<< TextPart("Here is your image."), JpegB, PngA >>) }
ProviderOutcomes ==
    { Throws(m) : m \in ProviderThrows } \cup RefusalOutcomes
        \cup EmptyOutcomes \cup ImageOutcomes

\* A plausible slip: the last image part is taken.
LastInlinePart(parts) ==
    LET images == {n \in 1..Len(parts) : parts[n].inlineData # None}
    IN  CHOOSE n \in images : \A m \in images : m <= n
\* for (const part of parts) { if (part.inlineData) return ... }: the part
\* the loop returns on, when there is one
FirstInlinePart(parts) ==
    LET images == {n \in 1..Len(parts) : parts[n].inlineData # None}
    IN  CHOOSE n \in images : \A m \in images : n <= m

\* The body of the operation handed to withRetry, from the point where
\* generateContent has settled: whether it resolves, with what value, or the
\* message of the Error that handleGeminiError throws out of it.
OperationResult(s, outcome) ==
    LET parts == outcome.parts
        images == {n \in 1..Len(parts) : parts[n].inlineData # None}
        texts == {n \in 1..Len(parts) : HasText(parts[n])}
        caught ==
            IF outcome.kind = "throws" THEN NewError(0, outcome.message)
            ELSE IF ~outcome.hasParts THEN NewError(0, "No content generated")
            ELSE IF texts # {}
                 THEN LET textPart == parts[CHOOSE n \in texts : \A m \in texts : n <= m]
                      IN  NewError(0, "Model Refused: " \o textPart.text[1])
            ELSE NewError(0, "No image data found in response")
    IN  IF outcome.kind = "responds" /\ outcome.hasParts /\ images # {}
        THEN [ok |-> TRUE,
              value |-> DataUrl(parts[FirstInlinePart(parts)].inlineData[1]),
              message |-> ""]
        ELSE [ok |-> FALSE, value |-> "", message |-> HandledMessage(s, caught)]

\* the operation settles: what it resolves with, or the Error object (a new
\* one, named id) it rejects with
OperationSettles(s, outcome, id) ==
    CHOOSE settled \in
        { [ok |-> r.ok, value |-> r.value, error |-> NewError(id, r.message)] :
              r \in {OperationResult(s, outcome)} } : TRUE

(***************************************************************************)
(* What an operation handed to withRetry directly can reject with: an       *)
(* Error's message and its JSON.stringify.                                  *)
(***************************************************************************)
RateLimitFailure == [message |-> "429 Too Many Requests", json |-> "{}"]
ValidationFailure == [message |-> "ValidationError: prompt is required", json |-> "{}"]
HarnessFailures ==
    { RateLimitFailure,
      ValidationFailure,
      [message |-> "fetch failed", json |-> "{}"],
      [message |-> "Too Many Requests", json |-> "{}"],
      [message |-> "", json |-> "{}"],
      [message |-> "Request failed", json |-> "{\"status\":429}"] }

(***************************************************************************)
(* withRetry                                                                *)
(***************************************************************************)
DefaultRetries(s) == IF s = SvcRef THEN 4 ELSE 3
DefaultInitialDelay(s) == IF s = SvcRef THEN 5000 ELSE 2000

\* const isRetryable = msg.includes(...) || ...
MatchesRetryMarker(s, msg, errString) ==
    \/ Includes(msg, "429")
    \/ Includes(msg, "503")
    \/ Includes(msg, "Quota")
    \/ Includes(msg, "High Traffic")
    \/ Includes(msg, "RESOURCE_EXHAUSTED")
    \/ Includes(msg, "fetch failed")
    \/ (s = SvcRef /\ Includes(msg, "Too Many Requests"))
    \/ (s = SvcRef /\ Includes(errString, "429"))

\* isRetryable for error, with msg = error.message || ""
isRetryable(s, error) == MatchesRetryMarker(s, error.message, error.json)

\* A plausible slip: the attempt bound compared off by one.
GivesUpOffByOne(retryable, i, retries) == ~retryable \/ i = retries
\* A plausible slip: the retryable test dropped, every failure is retried.
GivesUpOnlyWhenExhausted(retryable, i, retries) == i = retries - 1
\* if (!isRetryable || i === retries - 1) throw error
GivesUp(retryable, i, retries) == ~retryable \/ i = retries - 1

\* A plausible slip: the exponent counted from the attempt number.
BackoffDelayFromOne(initialDelay, i) == initialDelay * 2^(i + 1)
\* const delay = initialDelay * Math.pow(2, i)
BackoffDelay(initialDelay, i) == initialDelay * 2^i

\* A plausible slip: the first failure is kept and thrown in the end.
RethrownFirst(lastError, error) == IF lastError = None THEN error ELSE lastError[1]
\* throw error: the error just caught (lastError, the one before it)
Rethrown(lastError, error) == error

\* A frame of withRetry: its parameters, its locals, where it stands, and what
\* it has done so far (operation() invocations, setTimeout delays in order).
\*   pc: "calling"  awaiting operation()
\*       "waiting"  awaiting the backoff timer
\*       "resolved" returned value      "rejected" threw `thrown`
withRetryEnter(retries, initialDelay) ==
    [retries |-> retries, initialDelay |-> initialDelay, i |-> 0,
     lastError |-> None, value |-> None, thrown |-> None,
     pc |-> IF 0 < retries THEN "calling" ELSE "rejected",
     invoked |-> IF 0 < retries THEN 1 ELSE 0,
     waits |-> << >>]

\* return await operation()  -- operation() resolved with value
withRetryReturned(f, value) ==
    [f EXCEPT !.pc = "resolved", !.value = Some(value)]

\* catch (error) { ... }  -- operation() rejected with error
withRetryCaught(s, f, error) ==
    IF GivesUp(isRetryable(s, error), f.i, f.retries)
    THEN [f EXCEPT !.lastError = Some(error), !.pc = "rejected",
                   !.thrown = Some(Rethrown(f.lastError, error))]
    ELSE [f EXCEPT !.lastError = Some(error), !.pc = "waiting",
                   !.waits = Append(@, BackoffDelay(f.initialDelay, f.i))]

\* the timer of the backoff wait fires: i++, the loop test, the next
\* operation() or, past the loop, throw lastError
withRetryTimerFired(f) ==
    IF f.i + 1 < f.retries
    THEN [f EXCEPT !.i = @ + 1, !.pc = "calling", !.invoked = @ + 1]
    ELSE [f EXCEPT !.i = @ + 1, !.pc = "rejected", !.thrown = f.lastError]

(***************************************************************************)
(* editImage / generateImageFromText: one call                              *)
(***************************************************************************)
\* Whether the file reads an API key before it calls the provider.
ChecksApiKey(s) == s = SvcEnv

\* A plausible slip: the key is not tested before withRetry is entered.
ServiceEnterWithoutKeyTest(s, keySet, fn) ==
    LET f == withRetryEnter(DefaultRetries(s), DefaultInitialDelay(s))
    IN  [fn |-> fn, retry |-> Some(f), remoteCalls |-> 1, lastOutcome |-> None,
         pc |-> f.pc, value |-> None, thrown |-> None]

\* A call of editImage or generateImageFromText:
\*   fn           which of the two
\*   retry        the frame of its withRetry, None if withRetry was not entered
\*   remoteCalls  how many times generateContent has been issued
\*   lastOutcome  what the latest generateContent did
\*   pc           "calling" awaiting generateContent, "waiting" in a backoff
\*                wait, "resolved" (value) or "rejected" (thrown)
ServiceEnter(s, keySet, fn) ==
    IF ChecksApiKey(s) /\ ~keySet
    THEN [fn |-> fn, retry |-> None, remoteCalls |-> 0, lastOutcome |-> None,
          pc |-> "rejected", value |-> None,
          thrown |-> Some(NewError(1, "API Key not configured"))]
    ELSE LET f == withRetryEnter(DefaultRetries(s), DefaultInitialDelay(s))
         IN  [fn |-> fn, retry |-> Some(f), remoteCalls |-> 1, lastOutcome |-> None,
              pc |-> f.pc, value |-> None, thrown |-> None]

\* generateContent settles with outcome: the rest of the operation runs, then
\* withRetry's return or catch.
ServiceRemoteSettles(s, c, outcome) ==
    CHOOSE after \in
        { [c EXCEPT !.retry = Some(f), !.lastOutcome = Some(outcome),
                    !.pc = f.pc, !.value = f.value, !.thrown = f.thrown] :
              f \in { IF r.ok THEN withRetryReturned(c.retry[1], r.value)
                      ELSE withRetryCaught(s, c.retry[1], r.error) :
                          r \in {OperationSettles(s, outcome, c.remoteCalls)} } } : TRUE

\* the backoff timer fires: withRetry loops and, if attempts remain, the
\* operation issues generateContent again.
ServiceTimerFired(c) ==
    LET f == withRetryTimerFired(c.retry[1])
    IN  [c EXCEPT !.retry = Some(f), !.pc = f.pc, !.thrown = f.thrown,
                  !.remoteCalls = IF f.pc = "calling" THEN @ + 1 ELSE @]

CallWaits(c) == IF c.retry = None THEN << >> ELSE c.retry[1].waits

(***************************************************************************)
(* State                                                                    *)
(***************************************************************************)
VARIABLES
    svc,        \* which service file is linked in
    apiKeySet,  \* whether process.env.API_KEY holds a key
    frame,      \* withRetry under test: its frame
    opLog,      \* withRetry under test: the outcomes of operation(), in order
    call,       \* the service under test: the call of editImage/generateImageFromText
    editor,     \* which editor component is running
    mode, originalImage, isLoading, error, autoRatio, aspectRatio,
    prompt, editedImage,                        \* App.tsx
    i2iPrompt, i2iResult, t2iPrompt, t2iResult, \* src/App.tsx
    reading,      \* the files a FileReader is reading
    reqs,         \* the handleSubmit invocations that are awaiting something
    fin,          \* the handleSubmit invocation that ran to its end in the latest step
    submitCalls,  \* how many times handleSubmit has been invoked
    crop,         \* cropImage under test: the image, the ratio, the crop computed
    backend,      \* callBackendApi under test: the call
    handler,      \* the serverless handler under test: the request it serves
    handled       \* handleGeminiError under test: the error caught, the Error thrown

configVars == << svc, apiKeySet >>
retryVars == << frame, opLog >>
serviceVars == << call >>
settingVars == << mode, autoRatio, aspectRatio >>
promptVars == << prompt, i2iPrompt, t2iPrompt >>
resultVars == << editedImage, i2iResult, t2iResult >>
editorVars ==
    << editor, mode, originalImage, isLoading, error, autoRatio, aspectRatio,
       prompt, editedImage, i2iPrompt, i2iResult, t2iPrompt, t2iResult,
       reading, reqs, fin, submitCalls >>
unitVars == << crop, backend, handler, handled >>
vars == << svc, apiKeySet, frame, opLog, call, editorVars, unitVars >>

EdMain == "App.tsx"
EdDual == "src/App.tsx"
Editors == {EdMain, EdDual}

\* the image-to-image-only editors: unnamed/part_004 (with the ratio controls)
\* and src/SeoHead.tsx (with Start Over, the upload area shown only while
\* there is no image)
EdSingle == "unnamed/part_004"
EdSeo == "src/SeoHead.tsx"
SingleEditors == {EdSingle, EdSeo}

\* the editors that keep one prompt and one result
OnePrompt(ed) == ed \in {EdMain, EdSingle, EdSeo}

I2I == "image-to-image"
T2I == "text-to-image"

\* the state of an editor right after its component is mounted
EditorInit ==
    /\ mode = I2I
    /\ originalImage = None
    /\ isLoading = FALSE
    /\ error = None
    /\ autoRatio = TRUE
    /\ aspectRatio = "1:1"
    /\ prompt = "" /\ editedImage = None
    /\ i2iPrompt = "" /\ i2iResult = None
    /\ t2iPrompt = "" /\ t2iResult = None
    /\ reading = {}
    /\ reqs = << >>
    /\ fin = None
    /\ submitCalls = 0

\* none of cropImage, callBackendApi, the handler and handleGeminiError is
\* under test
NoUnit == crop = None /\ backend = None /\ handler = None /\ handled = None

NoCall ==
    [fn |-> "", retry |-> None, remoteCalls |-> 0, lastOutcome |-> None,
     pc |-> "none", value |-> None, thrown |-> None]

(***************************************************************************)
(* withRetry on its own: called with any attempt bound and base delay, on   *)
(* an operation that resolves or rejects as it pleases.                     *)
(***************************************************************************)
MaxAttempts == 4
BaseDelays == {1000, 2000, 5000}

HarnessInit ==
    /\ svc \in Services
    /\ \E retries \in 0..MaxAttempts, initialDelay \in BaseDelays :
           frame = withRetryEnter(retries, initialDelay)
    /\ opLog = << >>
    /\ apiKeySet = TRUE
    /\ call = NoCall
    /\ editor = EdMain
    /\ EditorInit
    /\ NoUnit

\* operation() rejects; the error object of the n-th invocation has id n
OperationRejects ==
    /\ frame.pc = "calling"
    /\ \E e \in HarnessFailures :
           /\ frame' = withRetryCaught(svc, frame,
                           [id |-> frame.invoked, message |-> e.message, json |-> e.json])
           /\ opLog' = Append(opLog, [ok |-> FALSE, message |-> e.message, json |-> e.json])
    /\ UNCHANGED << configVars, unitVars, serviceVars, editorVars >>

\* operation() resolves; the value of the n-th invocation is n
OperationResolves ==
    /\ frame.pc = "calling"
    /\ frame' = withRetryReturned(frame, frame.invoked)
    /\ opLog' = Append(opLog, [ok |-> TRUE, message |-> "", json |-> ""])
    /\ UNCHANGED << configVars, unitVars, serviceVars, editorVars >>

\* the backoff timer fires
TimerFires ==
    /\ frame.pc = "waiting"
    /\ frame' = withRetryTimerFired(frame)
    /\ UNCHANGED << configVars, unitVars, serviceVars, editorVars, opLog >>

HarnessNext == OperationRejects \/ OperationResolves \/ TimerFires

SpecRetry == HarnessInit /\ [][HarnessNext]_vars

Settled(f) == f.pc \in {"resolved", "rejected"}

FailsThenSucceeds(k) ==
    /\ Len(opLog) = k + 1
    /\ \A n \in 1..k : ~opLog[n].ok /\ opLog[n].message = RateLimitFailure.message
    /\ opLog[k + 1].ok

C2_FailsKTimesThenSucceeds ==
    \A k \in 0..(frame.retries - 1) :
        FailsThenSucceeds(k) =>
            /\ frame.pc = "resolved"
            /\ frame.value = Some(k + 1)
            /\ frame.invoked = k + 1
            /\ frame.waits = [n \in 1..k |-> frame.initialDelay * 2^(n - 1)]

C2_Witness ==
    /\ frame.retries = 3 /\ frame.initialDelay = 2000
    /\ FailsThenSucceeds(2)
    /\ frame.invoked = 3 /\ frame.waits = << 2000, 4000 >>

(***************************************************************************)
(* C3: when the operation fails with an error that matches none of the      *)
(* retry markers, withRetry invokes it exactly once, performs no wait and   *)
(* rejects with that same error object, whatever maxAttempts is.            *)
(***************************************************************************)
FirstFailureIsNotRetryable ==
    /\ Len(opLog) >= 1
    /\ ~opLog[1].ok
    /\ opLog[1].message \in {ValidationFailure.message, ""}

C3_NonRetryableOnce ==
    (frame.retries >= 1 /\ FirstFailureIsNotRetryable) =>
        /\ frame.pc = "rejected"
        /\ frame.invoked = 1
        /\ frame.waits = << >>
        /\ frame.thrown = Some([id |-> 1, message |-> opLog[1].message, json |-> opLog[1].json])

C3_Witness ==
    /\ frame.retries = 4
    /\ FirstFailureIsNotRetryable /\ opLog[1].message = ValidationFailure.message
    /\ frame.pc = "rejected"

(***************************************************************************)
(* C4: when every one of the maxAttempts invocations fails with a           *)
(* retryable error, withRetry rejects with the error object raised by the   *)
(* last invocation: not an earlier attempt's error, not a wrapper.          *)
(***************************************************************************)
AllAttemptsFailed ==
    /\ frame.retries >= 1
    /\ Len(opLog) = frame.retries
    /\ \A n \in 1..Len(opLog) : ~opLog[n].ok

C4_LastErrorRethrown ==
    AllAttemptsFailed =>
        LET last == opLog[frame.retries]
        IN  /\ frame.pc = "rejected"
            /\ frame.thrown = Some([id |-> frame.retries, message |-> last.message,
                                    json |-> last.json])

C4_Witness ==
    /\ AllAttemptsFailed /\ frame.retries = 3
    /\ opLog[1].message = "fetch failed" /\ opLog[3].message = RateLimitFailure.message
    /\ frame.pc = "rejected"

(***************************************************************************)
(* The service on its own: editImage / generateImageFromText called once,   *)
(* the provider answering each generateContent as it pleases.               *)
(***************************************************************************)
ServiceInit ==
    /\ svc \in Services
    /\ apiKeySet \in (IF ChecksApiKey(svc) THEN BOOLEAN ELSE {TRUE})
    /\ \E fn \in {"editImage", "generateImageFromText"} :
           call = ServiceEnter(svc, apiKeySet, fn)
    /\ frame = withRetryEnter(0, 0)
    /\ opLog = << >>
    /\ editor = EdMain
    /\ EditorInit
    /\ NoUnit

\* generateContent settles
RemoteSettles ==
    /\ call.pc = "calling"
    /\ \E outcome \in ProviderOutcomes :
           call' = ServiceRemoteSettles(svc, call, outcome)
    /\ UNCHANGED << configVars, unitVars, retryVars, editorVars >>

\* the backoff timer of the call's withRetry fires
BackoffElapses ==
    /\ call.pc = "waiting"
    /\ call' = ServiceTimerFired(call)
    /\ UNCHANGED << configVars, unitVars, retryVars, editorVars >>

ServiceNext == RemoteSettles \/ BackoffElapses

SpecService == ServiceInit /\ [][ServiceNext]_vars

LastThrew(c, messages) ==
    /\ c.lastOutcome # None
    /\ c.lastOutcome[1].kind = "throws"
    /\ c.lastOutcome[1].message \in messages

(***************************************************************************)
(* C5: in services/geminiService.ts every transient failure of              *)
(* generateContent - a rate-limit/quota failure or a transport failure      *)
(* ('fetch failed', '503') - is still retryable after handleGeminiError, so *)
(* the call is rejected on such a failure only when the 3 attempts are      *)
(* used up.                                                                 *)
(***************************************************************************)
C5_TransientFailureIsRetried ==
    (svc = SvcEnv /\ LastThrew(call, RateLimitThrows \cup TransportThrows)
                  /\ call.pc = "rejected")
        => call.remoteCalls = DefaultRetries(SvcEnv)

(***************************************************************************)
(* C6: in the reference variant (4 attempts, 5 s base delay) a provider     *)
(* rate-limit failure of generateContent is retried with backoff: the call  *)
(* is rejected on such a failure only when the 4 attempts are used up.      *)
(***************************************************************************)
C6_RateLimitIsRetried ==
    (svc = SvcRef /\ LastThrew(call, RateLimitThrows \cup {"Too Many Requests"})
                  /\ call.pc = "rejected")
        => call.remoteCalls = DefaultRetries(SvcRef)

(***************************************************************************)
(* C7: a response whose parts carry text but no inline image (a refusal) is *)
(* never retried, whatever the text: after it the call neither waits nor    *)
(* calls the provider again.                                                *)
(***************************************************************************)
LastWasRefusal(c) == c.lastOutcome # None /\ c.lastOutcome[1] \in RefusalOutcomes

C7_RefusalNeverRetried ==
    (svc = SvcEnv /\ LastWasRefusal(call)) => call.pc = "rejected"

(***************************************************************************)
(* C8: a failure classified as a safety block, and a response with no parts *)
(* or with parts that carry neither an image nor text, are never retried:   *)
(* the call is rejected at once, with no wait after it, and when it is the  *)
(* first answer exactly one remote call was made.                           *)
(***************************************************************************)
LastWasSafetyBlock(c) ==
    /\ c.lastOutcome # None
    /\ c.lastOutcome[1].kind = "throws"
    /\ Classify(svc, c.lastOutcome[1].message) = "safety"

LastWasEmpty(c) == c.lastOutcome # None /\ c.lastOutcome[1] \in EmptyOutcomes

C8_SafetyAndEmptyNeverRetried ==
    (LastWasSafetyBlock(call) \/ LastWasEmpty(call)) =>
        /\ call.pc = "rejected"
        /\ call.thrown # None
        /\ call.thrown[1].id = call.remoteCalls
        /\ Len(CallWaits(call)) = call.remoteCalls - 1
        /\ call.retry[1].i = 0 => (call.remoteCalls = 1 /\ CallWaits(call) = << >>)

C8_Witness ==
    /\ LastWasSafetyBlock(call)
    /\ call.pc = "rejected" /\ call.remoteCalls = 1
    /\ call.thrown[1].message = SafetyMessage

(***************************************************************************)
(* The editor: App.tsx (one prompt, one result) and src/App.tsx (a prompt   *)
(* and a result per mode).                                                  *)
(***************************************************************************)
MaxPromptLength == 2000
MaxSubmits == 2

Prompts == {"", "Add a pirate hat"}

\* str repeated n times
RECURSIVE Repeat(_, _)
Repeat(str, n) ==
    IF n = 0 THEN ""
    ELSE IF n % 2 = 0 THEN LET half == Repeat(str, n \div 2) IN half \o half
    ELSE str \o Repeat(str, n - 1)

\* a text one character longer than the limit of the textarea
LongText == Repeat("a", MaxPromptLength + 1)

\* e.target.value of the textarea's onChange: what the user types or pastes
TypedTexts == Prompts \cup {LongText}

\* the suggested prompts an editor offers as buttons
SuggestedPrompts(ed) ==
    IF ed \in {EdMain, EdSingle} THEN {"Add a pirate hat"}
    ELSE IF ed = EdSeo THEN {"Make the image black and white"}
    ELSE {}

\* onChange of the textarea: whether the typed text is given to setPrompt
\* (src/SeoHead.tsx gives every text, the others test its length)
AcceptsTyped(ed, text) == ed = EdSeo \/ Len(text) <= MaxPromptLength

AspectRatios(ed) ==
    IF ed \in {EdMain, EdSingle} THEN {"1:1", "16:9", "9:16", "4:3", "3:4"}
    ELSE IF ed = EdDual THEN {"1:1", "16:9", "9:16"}
    ELSE {}

\* the ratios the user picks among the options
RatiosTried == {"1:1", "16:9"}

\* the files the user can pick: their type and their content in base64
Files == { [type |-> "image/png", content |-> "SRC1"] }
\* in the image-to-image-only editors, a second file as well
FilesTried(ed) ==
    IF ed \in SingleEditors
    THEN Files \cup { [type |-> "image/jpeg", content |-> "SRC2"] }
    ELSE Files

\* dataUrl.split(',')[1]
SplitCommaSecond(dataUrl) ==
    LET commas == {p \in 1..Len(dataUrl) : SubSeq(dataUrl, p, p) = ","}
        first == CHOOSE p \in commas : \A q \in commas : p <= q
        later == {p \in commas : p > first}
        stop == IF later = {} THEN Len(dataUrl) + 1
                ELSE CHOOSE p \in later : \A q \in later : p <= q
    IN  SubSeq(dataUrl, first + 1, stop - 1)

\* fileToImageFile, once the FileReader has loaded the file
fileToImageFile(file) ==
    LET dataUrl == "data:" \o file.type \o ";base64," \o file.content
    IN  [dataUrl |-> dataUrl, base64 |-> SplitCommaSecond(dataUrl), mimeType |-> file.type]

\* what the provider answers to the editor's requests
EditorOutcomes ==
    { Throws("got status: 429 Too Many Requests"),
      NoParts,
      Responds(<< TextPart("I cannot do that.") >>),
      Responds(<< TextPart("This request was blocked by our content policy.") >>),
      Responds(<< PngA >>) }

\* the prompt and the result of the current mode
CurrentPrompt ==
    IF OnePrompt(editor) THEN prompt ELSE IF mode = I2I THEN i2iPrompt ELSE t2iPrompt
CurrentResult ==
    IF OnePrompt(editor) THEN editedImage ELSE IF mode = I2I THEN i2iResult ELSE t2iResult

\* A plausible slip: the source image is not asked for.
ValidationErrorPromptOnly(ed, m, p, image) ==
    IF ed \in SingleEditors
    THEN IF p = ""
         THEN Some("Please upload an image and provide an editing instruction.")
         ELSE None
    ELSE IF p = ""
    THEN Some(IF ed = EdMain THEN "Please provide an editing instruction."
              ELSE "Please provide a prompt.")
    ELSE None
\* the two checks that open handleSubmit: the message they record, or None
ValidationError(ed, m, p, image) ==
    IF ed \in SingleEditors
    THEN IF image = None \/ p = ""
         THEN Some("Please upload an image and provide an editing instruction.")
         ELSE None
    ELSE IF p = ""
    THEN Some(IF ed = EdMain THEN "Please provide an editing instruction."
              ELSE "Please provide a prompt.")
    ELSE IF m = I2I /\ image = None
    THEN Some(IF ed = EdMain THEN "Please upload an image for Image to Image mode."
              ELSE "Please upload an image.")
    ELSE None

\* A plausible slip: what is not an Error leaves no message.
CatchMessageOfErrorsOnly(ed, thrown) == IF thrown # None THEN thrown[1].message ELSE ""
\* err instanceof Error ? err.message : <fallback>
CatchMessage(ed, thrown) ==
    IF thrown # None THEN thrown[1].message
    ELSE IF ed = EdDual THEN "Unknown error" ELSE "An unknown error occurred."

\* A plausible slip: the image is handed back as it came.
CroppedUrlUncropped(url, ratio) == url
\* canvas.toDataURL('image/png') of the centred crop of the image at url
CroppedUrl(url, ratio) == "data:image/png;base64,crop[" \o ratio \o "](" \o url \o ")"

\* setEditedImage(v) / setI2iResult(v) / setT2iResult(v), by the mode m the
\* handler sees
SetResult(m, v) ==
    IF OnePrompt(editor)
    THEN editedImage' = v /\ UNCHANGED << i2iResult, t2iResult >>
    ELSE IF m = I2I
    THEN i2iResult' = v /\ UNCHANGED << editedImage, t2iResult >>
    ELSE t2iResult' = v /\ UNCHANGED << editedImage, i2iResult >>

RemoveAt(seq, k) == SubSeq(seq, 1, k - 1) \o SubSeq(seq, k + 1, Len(seq))

\* the result shown in mode m
ResultOf(m) ==
    IF OnePrompt(editor) THEN editedImage ELSE IF m = I2I THEN i2iResult ELSE t2iResult

\* A plausible slip: the result is cropped whatever Auto Ratio says.
CropsAlways(autoRatioSeen) == TRUE
\* if (!autoRatio) { ... await cropImage(newImageFromApi, aspectRatio) ... }
CropsResult(autoRatioSeen) == ~autoRatioSeen

\* the arguments handleSubmit gives to editImage(base64, mimeType, prompt) or
\* to generateImageFromText(prompt), for the mode m, prompt p and image of
\* its render; the image is there in image-to-image mode, past the checks
CallArguments(m, p, image) ==
    IF m = I2I
    THEN [fn |-> "editImage",
          base64 |-> IF image = None THEN "" ELSE image[1].base64,
          mimeType |-> IF image = None THEN "" ELSE image[1].mimeType,
          prompt |-> p]
    ELSE [fn |-> "generateImageFromText", base64 |-> "", mimeType |-> "", prompt |-> p]

\* A plausible slip: the operation reads the prompt of the latest render.
PayloadWithCurrentPrompt(args) == [args EXCEPT !.prompt = CurrentPrompt]
\* what an attempt puts into generateContent: the parameters of the call
PayloadSent(args) == args

\* A handleSubmit invocation past its checks: the state it has read (the
\* values of its render), the arguments of its call, the call c it made, what
\* each generateContent of the call was sent, the image the call gave it,
\* how many times it has called cropImage, and the result that was stored
\* when it was entered.
NewRequest(c) ==
    [mode |-> mode, prompt |-> CurrentPrompt, image |-> originalImage,
     autoRatio |-> autoRatio, aspectRatio |-> aspectRatio, pc |-> "service",
     args |-> CallArguments(mode, CurrentPrompt, originalImage),
     sent |-> IF c.remoteCalls = 0 THEN << >>
              ELSE << PayloadSent(CallArguments(mode, CurrentPrompt, originalImage)) >>,
     call |-> c, apiImage |-> None, crops |-> 0, prior |-> CurrentResult]

\* what is kept of a handleSubmit invocation r that ran to its end: what it
\* had read, the arguments of its call, the latest answer of the provider to it, what the service
\* returned to it, its calls of cropImage, the message it gave to setError
\* and the result it stored
Finished(r, shown, stored) ==
    Some([mode |-> r.mode, autoRatio |-> r.autoRatio, aspectRatio |-> r.aspectRatio,
          lastOutcome |-> r.call.lastOutcome, returned |-> r.call.value,
          crops |-> r.crops, shown |-> shown, stored |-> stored,
          prior |-> r.prior, args |-> r.args])

EditorSpecInit ==
    /\ svc \in Services
    /\ apiKeySet \in (IF ChecksApiKey(svc) THEN BOOLEAN ELSE {TRUE})
    /\ editor \in Editors
    /\ EditorInit
    /\ NoUnit
    /\ frame = withRetryEnter(0, 0)
    /\ opLog = << >>
    /\ call = NoCall

\* A plausible slip: the Generate button is not disabled while loading.
GenerateNeverLocked(loading) == FALSE
\* disabled={isLoading ...}: no click reaches handleSubmit while isLoading
GenerateLocked(loading) == loading

\* A plausible slip: the flag is not lowered on the way out.
LoadingLeftOn == TRUE
\* finally { setIsLoading(false) }
LoadingAfterFinally == FALSE

\* the upload area: src/SeoHead.tsx renders it only while there is no image
\* and the editing controls only while there is one; the editors with two
\* modes render it in image-to-image mode
UploadRendered == IF editor = EdSeo THEN originalImage = None ELSE mode = I2I
ControlsRendered == editor = EdSeo => originalImage # None

\* the prompt textarea: onChange, the clear button, a suggested prompt
SetPrompt ==
    /\ ControlsRendered
    /\ \E p \in {text \in TypedTexts : AcceptsTyped(editor, text)}
                  \cup SuggestedPrompts(editor) :
           /\ IF OnePrompt(editor)
              THEN prompt' = p /\ UNCHANGED << i2iPrompt, t2iPrompt >>
              ELSE IF mode = I2I
              THEN i2iPrompt' = p /\ UNCHANGED << prompt, t2iPrompt >>
              ELSE t2iPrompt' = p /\ UNCHANGED << prompt, i2iPrompt >>
    /\ UNCHANGED << configVars, unitVars, retryVars, serviceVars, editor, settingVars, resultVars,
                    originalImage, isLoading, error, reading, reqs, submitCalls >>
    /\ fin' = None

\* the two mode buttons
SetMode ==
    /\ \E m \in {I2I, T2I} : mode' = m
    /\ UNCHANGED << configVars, unitVars, retryVars, serviceVars, editor, autoRatio, aspectRatio,
                    promptVars, resultVars, originalImage, isLoading, error, reading,
                    reqs, submitCalls >>
    /\ fin' = None

\* the Auto Ratio checkbox
ToggleAutoRatio ==
    /\ editor # EdSeo
    /\ autoRatio' = ~autoRatio
    /\ UNCHANGED << configVars, unitVars, retryVars, serviceVars, editor, mode, aspectRatio,
                    promptVars, resultVars, originalImage, isLoading, error, reading,
                    reqs, submitCalls >>
    /\ fin' = None

\* the ratio select, disabled while Auto Ratio is on
SetAspectRatio ==
    /\ ~autoRatio
    /\ \E r \in AspectRatios(editor) \cap RatiosTried : aspectRatio' = r
    /\ UNCHANGED << configVars, unitVars, retryVars, serviceVars, editor, mode, autoRatio,
                    promptVars, resultVars, originalImage, isLoading, error, reading,
                    reqs, submitCalls >>
    /\ fin' = None

\* handleFileChange of src/SeoHead.tsx raises isLoading and empties the
\* prompt before it reads the file, and lowers isLoading in its finally
FileChangeLocks(ed) == ed = EdSeo

\* handleFileChange up to its await
ChooseFile ==
    /\ UploadRendered
    /\ \E file \in FilesTried(editor) : reading' = reading \cup {file}
    /\ error' = None
    /\ SetResult(I2I, None)
    /\ isLoading' = IF FileChangeLocks(editor) THEN TRUE ELSE isLoading
    /\ prompt' = IF FileChangeLocks(editor) THEN "" ELSE prompt
    /\ UNCHANGED << configVars, unitVars, retryVars, serviceVars, editor, settingVars,
                    i2iPrompt, t2iPrompt, originalImage, reqs, submitCalls >>
    /\ fin' = None

\* handleFileChange after its await: the FileReader loaded the file
FileLoaded ==
    /\ \E file \in reading :
           /\ reading' = reading \ {file}
           /\ originalImage' = Some(fileToImageFile(file))
    /\ isLoading' = IF FileChangeLocks(editor) THEN LoadingAfterFinally ELSE isLoading
    /\ UNCHANGED << configVars, unitVars, retryVars, serviceVars, editor, settingVars, promptVars,
                    resultVars, error, reqs, submitCalls >>
    /\ fin' = None

\* handleFileChange after its await: the FileReader failed
FileFailed ==
    /\ \E file \in reading : reading' = reading \ {file}
    /\ error' = Some(IF editor = EdDual
                     THEN "Failed to load image."
                     ELSE "Failed to load image. Please try another file.")
    /\ isLoading' = IF FileChangeLocks(editor) THEN LoadingAfterFinally ELSE isLoading
    /\ UNCHANGED << configVars, unitVars, retryVars, serviceVars, editor, settingVars, promptVars,
                    resultVars, originalImage, reqs, submitCalls >>
    /\ fin' = None

\* resetEditor of src/SeoHead.tsx: Start Over
ResetEditor ==
    /\ editor = EdSeo
    /\ ControlsRendered
    /\ originalImage' = None
    /\ editedImage' = None
    /\ prompt' = ""
    /\ error' = None
    /\ UNCHANGED << configVars, unitVars, retryVars, serviceVars, editor, settingVars,
                    i2iPrompt, t2iPrompt, i2iResult, t2iResult, isLoading, reading,
                    reqs, submitCalls >>
    /\ fin' = None

\* A plausible slip: the result is cleared ahead of the checks.
ResultClearedBeforeChecks(current) == None
\* the checks return ahead of setEditedImage(null): the result stays
ResultOnRejection(current) == current

\* handleSubmit, invoked while no submission is loading (both Generate
\* buttons are disabled while isLoading), up to its first await that does not
\* settle at once.  The button of App.tsx is disabled as well for an empty
\* prompt or a missing image; the handler tests both again and is modelled
\* as called with them, as the button of src/App.tsx lets it be.
Submit ==
    /\ ~GenerateLocked(isLoading)
    /\ ControlsRendered
    /\ submitCalls < MaxSubmits
    /\ submitCalls' = submitCalls + 1
    /\ \E invalid \in {ValidationError(editor, mode, CurrentPrompt, originalImage)},
          c \in {ServiceEnter(svc, apiKeySet,
                              IF mode = I2I THEN "editImage" ELSE "generateImageFromText")} :
           IF invalid # None
           THEN /\ error' = invalid
                /\ fin' = None
                /\ SetResult(mode, ResultOnRejection(CurrentResult))
                /\ UNCHANGED << isLoading, reqs >>
           ELSE IF c.pc = "rejected"
           THEN /\ error' = Some(CatchMessage(editor, c.thrown))
                /\ isLoading' = LoadingAfterFinally
                /\ SetResult(mode, None)
                /\ fin' = Finished(NewRequest(c), error', None)
                /\ UNCHANGED reqs
           ELSE /\ error' = None
                /\ isLoading' = TRUE
                /\ SetResult(mode, None)
                /\ reqs' = Append(reqs, NewRequest(c))
                /\ fin' = None
    /\ UNCHANGED << configVars, unitVars, retryVars, serviceVars, editor, settingVars, promptVars,
                    originalImage, reading >>

\* generateContent settles for a submission: the rest of the operation, of
\* withRetry and, unless it waits or crops, of handleSubmit
SubmitRemoteSettles ==
    /\ \E k \in 1..Len(reqs), outcome \in EditorOutcomes :
           /\ reqs[k].pc = "service" /\ reqs[k].call.pc = "calling"
           /\ \E c \in {ServiceRemoteSettles(svc, reqs[k].call, outcome)} :
              LET r == [reqs[k] EXCEPT !.call = c]
              IN  IF c.pc = "waiting"
                  THEN /\ reqs' = [reqs EXCEPT ![k].call = c]
                       /\ fin' = None
                       /\ UNCHANGED << isLoading, error, resultVars >>
                  ELSE IF c.pc = "rejected"
                  THEN /\ error' = Some(CatchMessage(editor, c.thrown))
                       /\ isLoading' = LoadingAfterFinally
                       /\ reqs' = RemoveAt(reqs, k)
                       /\ fin' = Finished(r, error', None)
                       /\ UNCHANGED resultVars
                  ELSE IF CropsResult(r.autoRatio)
                  THEN /\ reqs' = [reqs EXCEPT ![k].call = c, ![k].pc = "cropping",
                                               ![k].apiImage = c.value,
                                               ![k].crops = @ + 1]
                       /\ fin' = None
                       /\ UNCHANGED << isLoading, error, resultVars >>
                  ELSE /\ SetResult(r.mode, c.value)
                       /\ isLoading' = LoadingAfterFinally
                       /\ reqs' = RemoveAt(reqs, k)
                       /\ fin' = Finished(r, None, c.value)
                       /\ UNCHANGED error
    /\ UNCHANGED << configVars, unitVars, retryVars, serviceVars, editor, settingVars, promptVars,
                    originalImage, reading, submitCalls >>

\* the backoff timer of a submission's withRetry fires
SubmitBackoffElapses ==
    /\ \E k \in 1..Len(reqs) :
           /\ reqs[k].pc = "service" /\ reqs[k].call.pc = "waiting"
           /\ \E c \in {ServiceTimerFired(reqs[k].call)} :
                  IF c.pc = "rejected"
                  THEN /\ error' = Some(CatchMessage(editor, c.thrown))
                       /\ isLoading' = LoadingAfterFinally
                       /\ reqs' = RemoveAt(reqs, k)
                       /\ fin' = Finished([reqs[k] EXCEPT !.call = c], error', None)
                  ELSE /\ reqs' = [reqs EXCEPT ![k].call = c,
                                               ![k].sent = Append(@, PayloadSent(reqs[k].args))]
                       /\ fin' = None
                       /\ UNCHANGED << isLoading, error >>
    /\ UNCHANGED << configVars, unitVars, retryVars, serviceVars, editor, settingVars, promptVars,
                    resultVars, originalImage, reading, submitCalls >>

\* cropImage resolves: img.onload ran and the canvas gave its data URL
CropResolves ==
    /\ \E k \in 1..Len(reqs) :
           /\ reqs[k].pc = "cropping"
           /\ LET r == reqs[k]
                  croppedImage == CroppedUrl(r.apiImage[1], r.aspectRatio)
              IN  /\ SetResult(r.mode, Some(croppedImage))
                  /\ fin' = Finished(r, None, Some(croppedImage))
           /\ reqs' = RemoveAt(reqs, k)
    /\ isLoading' = LoadingAfterFinally
    /\ UNCHANGED << configVars, unitVars, retryVars, serviceVars, editor, settingVars, promptVars,
                    originalImage, error, reading, submitCalls >>

\* cropImage rejects: no 2d context (an Error) or img.onerror (an event)
CropRejects ==
    /\ \E k \in 1..Len(reqs), thrown \in {None, Some(NewError(0, "Could not get canvas context"))} :
           /\ reqs[k].pc = "cropping"
           /\ error' = Some(CatchMessage(editor, thrown))
           /\ fin' = Finished(reqs[k], error', None)
           /\ reqs' = RemoveAt(reqs, k)
    /\ isLoading' = LoadingAfterFinally
    /\ UNCHANGED << configVars, unitVars, retryVars, serviceVars, editor, settingVars, promptVars,
                    resultVars, originalImage, reading, submitCalls >>

Next ==
    \/ SetPrompt \/ SetMode \/ ToggleAutoRatio \/ SetAspectRatio
    \/ ChooseFile \/ FileLoaded \/ FileFailed
    \/ Submit \/ SubmitRemoteSettles \/ SubmitBackoffElapses
    \/ CropResolves \/ CropRejects

Spec == EditorSpecInit /\ [][Next]_vars

\* the image-to-image-only editors, with services/geminiService.ts and a key
SingleInit ==
    /\ svc = SvcEnv
    /\ apiKeySet = TRUE
    /\ editor \in SingleEditors
    /\ EditorInit
    /\ NoUnit
    /\ frame = withRetryEnter(0, 0)
    /\ opLog = << >>
    /\ call = NoCall

SingleNext ==
    \/ SetPrompt \/ ToggleAutoRatio \/ SetAspectRatio
    \/ ChooseFile \/ FileLoaded \/ FileFailed \/ ResetEditor
    \/ Submit \/ SubmitRemoteSettles \/ SubmitBackoffElapses
    \/ CropResolves \/ CropRejects

SpecSingle == SingleInit /\ [][SingleNext]_vars

(***************************************************************************)
(* Properties of the editors                                                *)
(***************************************************************************)
\* the text of a text-only answer of the provider
RefusalText(outcome) == outcome.parts[1].text[1]

\* a submission ended in this step on a text-only answer of the provider
EndedOnRefusal ==
    /\ fin # None
    /\ fin[1].lastOutcome # None
    /\ fin[1].lastOutcome[1] \in RefusalOutcomes

\* C9: when the provider's final answer to a submission holds only text, the
\* message the editor records with setError contains that text, whatever the
\* text.
C9_RefusalTextShown ==
    EndedOnRefusal =>
        /\ fin[1].shown # None
        /\ Includes(fin[1].shown[1], RefusalText(fin[1].lastOutcome[1]))

\* handleSubmit is entered with an empty prompt, or in image-to-image mode
\* with no source image
SubmitsInvalid ==
    /\ submitCalls' = submitCalls + 1
    /\ \/ CurrentPrompt = ""
       \/ mode = I2I /\ originalImage = None

\* C10: a handleSubmit entered with an empty prompt (in either mode), or in
\* image-to-image mode without a source image, returns before any remote
\* call: no request is started and none has run, isLoading is false before
\* and after, and an error message is recorded.
C10_InvalidSubmitRejected ==
    [][SubmitsInvalid =>
          /\ reqs' = reqs
          /\ fin' = None
          /\ ~isLoading /\ ~isLoading'
          /\ error' # None
          /\ error' = ValidationError(editor, mode, CurrentPrompt, originalImage)]_vars

\* a prompt was given but no image, the submission was turned down and
\* nothing is in flight
C10_Witness ==
    /\ editor = EdDual
    /\ mode = I2I
    /\ i2iPrompt # ""
    /\ originalImage = None
    /\ error = Some("Please upload an image.")
    /\ submitCalls = 1
    /\ reqs = << >>
    /\ ~isLoading

\* C11: in the main editor at most one transform request is in flight at any
\* time, whatever the user does while a request is outstanding, and isLoading
\* is true for as long as it is.
C11_SingleInFlight ==
    editor = EdMain =>
        /\ Len(reqs) <= 1
        /\ reqs # << >> => isLoading

\* a second submission of the main editor is in flight, the first one being
\* over, while a file chosen meanwhile is still being read
C11_Witness ==
    /\ editor = EdMain
    /\ Len(reqs) = 1
    /\ submitCalls = 2
    /\ reading # {}

\* a submission ended in this step with a failure, of the remote call or of
\* the crop
EndedInFailure == fin # None /\ fin[1].shown # None

\* C12: a submission that ends in failure leaves in place the result an
\* earlier successful submission stored: the result that was stored when the
\* submission began is still stored when it has failed.
C12_FailureKeepsPriorResult ==
    (EndedInFailure /\ fin[1].prior # None) => ResultOf(fin[1].mode) = fin[1].prior

\* a submission made with Auto Ratio on ended in this step, the service
\* having returned an image to it
EndedWithImageAutoRatio ==
    fin # None /\ fin[1].autoRatio /\ fin[1].returned # None

\* C13: a successful submission made with Auto Ratio on stores exactly the
\* data URL the service returned, and has not called cropImage.
C13_AutoRatioStoresUnmodified ==
    EndedWithImageAutoRatio =>
        /\ fin[1].stored = fin[1].returned
        /\ ResultOf(fin[1].mode) = fin[1].returned
        /\ fin[1].crops = 0
        /\ fin[1].shown = None

\* the provider's image is the result shown, as returned; the user switched
\* Auto Ratio off while the submission was in flight
C13_Witness ==
    /\ EndedWithImageAutoRatio
    /\ fin[1].returned = Some("data:image/png;base64,AAAA")
    /\ ResultOf(fin[1].mode) = Some("data:image/png;base64,AAAA")
    /\ ~autoRatio

\* a submission made with Auto Ratio off ended in this step
EndedWithAutoRatioOff == fin # None /\ ~fin[1].autoRatio

\* C14: a submission made with Auto Ratio off calls cropImage once when the
\* service has returned an image to it, after that, and never when the call
\* failed; what it stores is what cropImage gave for that image and the
\* ratio it read, and if it stores nothing (the call or the crop failed) the
\* result is empty: the image of the provider is never stored uncropped.
C14_CropOnceAfterSuccess ==
    /\ \A k \in 1..Len(reqs) :
           /\ reqs[k].pc = "service" => reqs[k].crops = 0
           /\ reqs[k].pc = "cropping" =>
                  /\ reqs[k].call.pc = "resolved"
                  /\ reqs[k].apiImage = reqs[k].call.value
                  /\ reqs[k].crops = 1
                  /\ ~reqs[k].autoRatio
    /\ EndedWithAutoRatioOff =>
           /\ fin[1].crops = (IF fin[1].returned # None THEN 1 ELSE 0)
           /\ fin[1].stored # None =>
                  /\ fin[1].returned # None
                  /\ fin[1].stored # fin[1].returned
                  /\ fin[1].stored = Some("data:image/png;base64,crop[" \o fin[1].aspectRatio
                                          \o "](" \o fin[1].returned[1] \o ")")
                  /\ ResultOf(fin[1].mode) = fin[1].stored
           /\ fin[1].stored = None =>
                  /\ fin[1].shown # None
                  /\ ResultOf(fin[1].mode) = None

\* the crop to 16:9 of the provider's image is the result shown
C14_Witness ==
    /\ EndedWithAutoRatioOff
    /\ fin[1].crops = 1
    /\ fin[1].aspectRatio = "16:9"
    /\ fin[1].returned = Some("data:image/png;base64,AAAA")
    /\ ResultOf(fin[1].mode) = Some("data:image/png;base64,crop[16:9](data:image/png;base64,AAAA)")

\* handleSubmit was entered and returned in this step, without awaiting
ReturnsAtOnce == submitCalls' = submitCalls + 1 /\ reqs' = reqs

\* a message is recorded and is one the page displays ({error && ...})
ErrorDisplayed(e) == e # None /\ e[1] # ""

\* C16: no failure is swallowed.  A handleSubmit that returns at once (its
\* checks failed, or the service rejected it before any await) leaves a
\* message that is displayed; a submission that ran to its end either stored
\* a result, which is the result shown, or gave setError a message that is
\* displayed: never neither.
C16_NoFailureSwallowed ==
    [][/\ ReturnsAtOnce => ErrorDisplayed(error')
       /\ fin' # None =>
              \/ /\ fin'[1].stored # None
                 /\ ResultOf(fin[1].mode)' = fin'[1].stored
              \/ /\ ErrorDisplayed(fin'[1].shown)
                 /\ error' = fin'[1].shown]_vars

\* the crop failed with an event that is not an Error: the fallback message
\* is recorded and no result is stored
C16_Witness ==
    /\ fin # None
    /\ fin[1].crops = 1
    /\ fin[1].stored = None
    /\ error \in {Some("An unknown error occurred."), Some("Unknown error")}
    /\ error = fin[1].shown
    /\ ResultOf(fin[1].mode) = None

(***************************************************************************)
(* The main editor over services/geminiService.ts when every remote call,  *)
(* every backoff timer and every crop eventually settles.  Each of these   *)
(* steps changes reqs, the requests awaiting something.                    *)
(***************************************************************************)
LiveInit == EditorSpecInit /\ editor = EdMain /\ svc = SvcEnv

SpecLive ==
    /\ LiveInit
    /\ [][Next]_vars
    /\ WF_reqs(SubmitRemoteSettles)
    /\ WF_reqs(SubmitBackoffElapses)
    /\ WF_reqs(CropResolves \/ CropRejects)

\* C15: every submission that passes validation eventually finishes, with
\* isLoading false again and no request left; and when a submission has
\* failed the Generate button is not locked: a new submission can be made.
C15_SubmissionsFinish ==
    /\ (isLoading \/ reqs # << >>) ~> (~isLoading /\ reqs = << >>)
    /\ [](EndedInFailure => ~GenerateLocked(isLoading))

\* the second submission failed after its retries were used up and the
\* editor is idle again
C15_Witness ==
    /\ EndedInFailure
    /\ submitCalls = 2
    /\ fin[1].lastOutcome = Some(Throws("got status: 429 Too Many Requests"))
    /\ ~isLoading
    /\ reqs = << >>

(***************************************************************************)
(* Properties of the response parsing of editImage / generateImageFromText  *)
(***************************************************************************)
\* the indices of the parts of the latest response that carry inline data,
\* and of those that carry a text
InlineIndices == {n \in 1..Len(call.lastOutcome[1].parts) :
                      call.lastOutcome[1].parts[n].inlineData # None}
TextIndices == {n \in 1..Len(call.lastOutcome[1].parts) :
                    /\ call.lastOutcome[1].parts[n].text # None
                    /\ call.lastOutcome[1].parts[n].text[1] # ""}

\* generateContent answered the call with a response
LastResponded == call.lastOutcome # None /\ call.lastOutcome[1].kind = "responds"

\* C17: when the parts of the response hold an inline-data part the call
\* resolves on that attempt with 'data:<mimeType>;base64,<data>' of the first
\* such part, text parts or not; a refusal ('Model Refused') is thrown only
\* when no part carries inline data, and the empty-response errors only when
\* no part carries inline data or text, which is also when they are thrown.
C17_FirstInlinePartWins ==
    LastResponded =>
        /\ InlineIndices # {} =>
               /\ call.pc = "resolved"
               /\ \E n \in InlineIndices :
                      /\ \A m \in InlineIndices : n <= m
                      /\ call.value =
                             Some("data:" \o call.lastOutcome[1].parts[n].inlineData[1].mimeType
                                  \o ";base64," \o call.lastOutcome[1].parts[n].inlineData[1].data)
        /\ InlineIndices = {} => call.pc # "resolved"
        /\ (call.thrown # None /\ Includes(call.thrown[1].message, "Model Refused: ")) =>
               InlineIndices = {} /\ TextIndices # {}
        /\ (InlineIndices = {} /\ TextIndices = {}) <=>
               /\ call.thrown # None
               /\ call.thrown[1].message \in
                      { "Generation Failed: No content generated",
                        "Generation Failed: No image data found in response" }

\* a response with a text part, then a JPEG part, then a PNG part: the call
\* resolved with the JPEG
C17_Witness ==
    /\ LastResponded
    /\ call.lastOutcome[1].parts = << TextPart("Here is your image."), JpegB, PngA >>
    /\ call.pc = "resolved"
    /\ call.value = Some("data:image/jpeg;base64,BBBB")

(***************************************************************************)
(* cropImage on its own: the region it cuts out of a loaded image.          *)
(* A number of the code is an exact fraction [num, den] here, den > 0; the  *)
(* code computes in doubles, whose comparison originalRatio > targetRatio   *)
(* agrees with the exact one for image sizes (two different fractions of    *)
(* such sizes are never within one rounding of each other).                 *)
(***************************************************************************)
Frac(n, d) == [num |-> n, den |-> d]
FracEq(a, b) == a.num * b.den = b.num * a.den
FracLess(a, b) == a.num * b.den < b.num * a.den
FracSub(a, b) == Frac(a.num * b.den - b.num * a.den, a.den * b.den)
FracMul(a, b) == Frac(a.num * b.num, a.den * b.den)
\* a / b, for b > 0
FracDiv(a, b) == Frac(a.num * b.den, a.den * b.num)

\* Number(c) of a decimal digit
DigitValue(c) ==
    CASE c = "0" -> 0 [] c = "1" -> 1 [] c = "2" -> 2 [] c = "3" -> 3 [] c = "4" -> 4
      [] c = "5" -> 5 [] c = "6" -> 6 [] c = "7" -> 7 [] c = "8" -> 8 [] c = "9" -> 9

\* Number(str) of a string of decimal digits
RECURSIVE Number(_)
Number(str) ==
    IF Len(str) = 0 THEN 0
    ELSE 10 * Number(SubSeq(str, 1, Len(str) - 1)) + DigitValue(SubSeq(str, Len(str), Len(str)))

\* const [w, h] = ratio.split(':').map(Number); return w / h
getAspectRatioFromString(ratio) ==
    LET colon == CHOOSE p \in 1..Len(ratio) : SubSeq(ratio, p, p) = ":"
    IN  Frac(Number(SubSeq(ratio, 1, colon - 1)),
             Number(SubSeq(ratio, colon + 1, Len(ratio))))

\* A plausible slip: the comparison of the two ratios is turned round.
CropRegionComparisonReversed(originalWidth, originalHeight, targetRatioString) ==
    LET originalRatio == Frac(originalWidth, originalHeight)
        targetRatio == getAspectRatioFromString(targetRatioString)
    IN  IF FracLess(originalRatio, targetRatio)
        THEN LET cropWidth == FracMul(Frac(originalHeight, 1), targetRatio)
             IN  [cropWidth |-> cropWidth,
                  cropHeight |-> Frac(originalHeight, 1),
                  cropX |-> FracDiv(FracSub(Frac(originalWidth, 1), cropWidth), Frac(2, 1)),
                  cropY |-> Frac(0, 1)]
        ELSE LET cropHeight == FracDiv(Frac(originalWidth, 1), targetRatio)
             IN  [cropWidth |-> Frac(originalWidth, 1),
                  cropHeight |-> cropHeight,
                  cropX |-> Frac(0, 1),
                  cropY |-> FracDiv(FracSub(Frac(originalHeight, 1), cropHeight), Frac(2, 1))]
\* A plausible slip: the offset is the whole margin, not half of it.
CropRegionOffsetNotHalved(originalWidth, originalHeight, targetRatioString) ==
    LET targetRatio == getAspectRatioFromString(targetRatioString)
    IN  IF FracLess(targetRatio, Frac(originalWidth, originalHeight))
        THEN [cropWidth |-> FracMul(Frac(originalHeight, 1), targetRatio),
              cropHeight |-> Frac(originalHeight, 1),
              cropX |-> FracSub(Frac(originalWidth, 1),
                                FracMul(Frac(originalHeight, 1), targetRatio)),
              cropY |-> Frac(0, 1)]
        ELSE [cropWidth |-> Frac(originalWidth, 1),
              cropHeight |-> FracDiv(Frac(originalWidth, 1), targetRatio),
              cropX |-> Frac(0, 1),
              cropY |-> FracSub(Frac(originalHeight, 1),
                                FracDiv(Frac(originalWidth, 1), targetRatio))]
\* img.onload of cropImage: cropWidth, cropHeight, cropX, cropY for an image
\* of originalWidth x originalHeight
CropRegion(originalWidth, originalHeight, targetRatioString) ==
    LET originalRatio == Frac(originalWidth, originalHeight)
        targetRatio == getAspectRatioFromString(targetRatioString)
    IN  IF FracLess(targetRatio, originalRatio)
        THEN LET cropWidth == FracMul(Frac(originalHeight, 1), targetRatio)
             IN  [cropWidth |-> cropWidth,
                  cropHeight |-> Frac(originalHeight, 1),
                  cropX |-> FracDiv(FracSub(Frac(originalWidth, 1), cropWidth), Frac(2, 1)),
                  cropY |-> Frac(0, 1)]
        ELSE LET cropHeight == FracDiv(Frac(originalWidth, 1), targetRatio)
             IN  [cropWidth |-> Frac(originalWidth, 1),
                  cropHeight |-> cropHeight,
                  cropX |-> Frac(0, 1),
                  cropY |-> FracDiv(FracSub(Frac(originalHeight, 1), cropHeight), Frac(2, 1))]

\* the widths and heights of the images tried, and the ratios of the select
ImageSizes == {1, 9, 16, 1000, 1080, 1920}
CropInputs ==
    [originalWidth : ImageSizes, originalHeight : ImageSizes,
     targetRatioString : AspectRatios(EdMain), region : {None}]

CropInit ==
    /\ svc = SvcEnv /\ apiKeySet = TRUE
    /\ frame = withRetryEnter(0, 0) /\ opLog = << >>
    /\ call = NoCall
    /\ editor = EdMain
    /\ EditorInit
    /\ backend = None /\ handler = None /\ handled = None
    /\ crop \in CropInputs

\* img.onload: the region is computed
ImageLoads ==
    /\ crop.region = None
    /\ crop' = [crop EXCEPT !.region =
                    Some(CropRegion(crop.originalWidth, crop.originalHeight,
                                    crop.targetRatioString))]
    /\ UNCHANGED << configVars, retryVars, serviceVars, editorVars, backend, handler, handled >>

CropNext == ImageLoads

SpecCrop == CropInit /\ [][CropNext]_vars

\* the target ratios as fractions
RatioOf(str) ==
    CASE str = "1:1" -> Frac(1, 1) [] str = "16:9" -> Frac(16, 9)
      [] str = "9:16" -> Frac(9, 16) [] str = "4:3" -> Frac(4, 3) [] str = "3:4" -> Frac(3, 4)

\* a / b for whole a and fraction b
Over(a, b) == Frac(a * b.den, b.num)
\* a * b for whole a and fraction b
Times(a, b) == Frac(a * b.num, b.den)
\* (a - b) / 2 for whole a and fraction b
HalfMargin(a, b) == Frac(a * b.den - b.num, 2 * b.den)

\* C18: for every source size W0 x H0 and target ratio R, when W0/H0 > R the
\* crop is H0*R wide and H0 high at x = (W0 - cropW)/2, y = 0, and otherwise
\* W0 wide and W0/R high at x = 0, y = (H0 - cropH)/2; in both cases
\* cropW/cropH = R and the crop is centred; a 1000x1000 source at 16:9 gives
\* width 1000, height 562.5, x = 0 and y = 218.75.
C18_CropGeometry ==
    crop # None /\ crop.region # None =>
        LET W0 == crop.originalWidth
            H0 == crop.originalHeight
            R == RatioOf(crop.targetRatioString)
            g == crop.region[1]
        IN  /\ IF W0 * R.den > H0 * R.num
               THEN /\ FracEq(g.cropWidth, Times(H0, R))
                    /\ FracEq(g.cropHeight, Frac(H0, 1))
                    /\ FracEq(g.cropX, HalfMargin(W0, Times(H0, R)))
                    /\ FracEq(g.cropY, Frac(0, 1))
               ELSE /\ FracEq(g.cropWidth, Frac(W0, 1))
                    /\ FracEq(g.cropHeight, Over(W0, R))
                    /\ FracEq(g.cropX, Frac(0, 1))
                    /\ FracEq(g.cropY, HalfMargin(H0, Over(W0, R)))
            /\ g.cropWidth.den > 0 /\ g.cropHeight.den > 0
            /\ g.cropX.den > 0 /\ g.cropY.den > 0
            /\ FracEq(FracDiv(g.cropWidth, g.cropHeight), R)
            /\ FracEq(g.cropX, HalfMargin(W0, g.cropWidth))
            /\ FracEq(g.cropY, HalfMargin(H0, g.cropHeight))
            /\ ~FracLess(g.cropX, Frac(0, 1)) /\ ~FracLess(g.cropY, Frac(0, 1))
            /\ (W0 = 1000 /\ H0 = 1000 /\ crop.targetRatioString = "16:9") =>
                   /\ FracEq(g.cropWidth, Frac(1000, 1))
                   /\ FracEq(g.cropHeight, Frac(1125, 2))
                   /\ FracEq(g.cropX, Frac(0, 1))
                   /\ FracEq(g.cropY, Frac(875, 4))

\* a 1920x1080 image cropped to 4:3: 1440 wide, 1080 high, at x = 240
C18_Witness ==
    /\ crop # None /\ crop.region # None
    /\ crop.originalWidth = 1920 /\ crop.originalHeight = 1080
    /\ crop.targetRatioString = "4:3"
    /\ FracEq(crop.region[1].cropWidth, Frac(1440, 1))
    /\ FracEq(crop.region[1].cropX, Frac(240, 1))

(***************************************************************************)
(* The backend-proxy client (unnamed/part_003): callBackendApi posts the    *)
(* payload to /api/gemini and reads the reply; editImage and                *)
(* generateImageFromText only build the payload.                            *)
(***************************************************************************)
\* what fetch can reject with: a TypeError with its message, an error without one
NetworkFailures == { "Failed to fetch", "" }

\* the statuses the backend answers with, and their reason phrases
StatusText(status) ==
    CASE status = 200 -> "OK"
      [] status = 400 -> "Bad Request"
      [] status = 500 -> "Internal Server Error"
Statuses == {200, 400, 500}

\* the bodies of a reply: one that is not JSON, the JSON null, and an object
\* with any of success, image and error
BackendErrorTexts == { "", "Gemini returned no candidates." }
Bodies ==
    { [kind |-> "unreadable", success |-> None, image |-> None, error |-> None],
      [kind |-> "null", success |-> None, image |-> None, error |-> None] }
    \cup [kind : {"object"},
          success : {None, Some(TRUE), Some(FALSE)},
          image : {None, Some(""), Some(DataUrl(PngA.inlineData[1]))},
          error : {None} \cup { Some(t) : t \in BackendErrorTexts }]

Replies ==
    { [network |-> Some(m), status |-> 0, body |-> None] : m \in NetworkFailures }
    \cup { [network |-> None, status |-> st, body |-> Some(b)] : st \in Statuses, b \in Bodies }

\* a || b for strings absent or present
OrElse(a, b) == IF a # None /\ a[1] # "" THEN a[1] ELSE b

\* A plausible slip: the status of the reply is not looked at.
ResponseOkAlways(status) == TRUE
\* response.ok
ResponseOk(status) == status >= 200 /\ status <= 299

\* the try block of callBackendApi, given what fetch settled with: the value
\* returned or the message of what is thrown
BackendTry(reply) ==
    IF reply.network # None THEN [ok |-> FALSE, value |-> "", message |-> reply.network[1]]
    ELSE LET data == reply.body[1]
         IN  IF data.kind = "unreadable"
             THEN [ok |-> FALSE, value |-> "",
                   message |-> "Unexpected token '<', \"<!DOCTYPE \"... is not valid JSON"]
             ELSE IF ~ResponseOk(reply.status)
             THEN IF data.kind = "null"
                  THEN [ok |-> FALSE, value |-> "",
                        message |-> "Cannot read properties of null (reading 'error')"]
                  ELSE [ok |-> FALSE, value |-> "",
                        message |-> OrElse(data.error,
                                           "Server Error: " \o ToString(reply.status)
                                               \o " " \o StatusText(reply.status))]
             ELSE IF data.kind = "null"
             THEN [ok |-> FALSE, value |-> "",
                   message |-> "Cannot read properties of null (reading 'success')"]
             ELSE IF data.success = Some(TRUE) /\ data.image # None /\ data.image[1] # ""
             THEN [ok |-> TRUE, value |-> data.image[1], message |-> ""]
             ELSE [ok |-> FALSE, value |-> "",
                   message |-> OrElse(data.error,
                                      "Unknown error occurred: No image data returned.")]

\* callBackendApi once fetch has settled: the catch rethrows with
\* error.message || "Failed to connect to the server."
callBackendApiSettles(b, reply) ==
    LET r == BackendTry(reply)
    IN  IF r.ok
        THEN [b EXCEPT !.pc = "resolved", !.reply = Some(reply), !.value = Some(r.value)]
        ELSE [b EXCEPT !.pc = "rejected", !.reply = Some(reply),
                       !.thrown = Some(OrElse(Some(r.message),
                                              "Failed to connect to the server."))]

\* callBackendApi(payload) up to the await of fetch
callBackendApiEnter(payload) ==
    [pc |-> "fetching", payload |-> payload, fetches |-> 1,
     reply |-> None, value |-> None, thrown |-> None]

BackendIdle ==
    [pc |-> "idle", payload |-> None, fetches |-> 0,
     reply |-> None, value |-> None, thrown |-> None]

BackendInit ==
    /\ svc = SvcEnv /\ apiKeySet = TRUE
    /\ frame = withRetryEnter(0, 0) /\ opLog = << >>
    /\ call = NoCall
    /\ editor = EdMain
    /\ EditorInit
    /\ crop = None /\ handler = None /\ handled = None
    /\ backend = BackendIdle

BackendUnchanged ==
    UNCHANGED << configVars, retryVars, serviceVars, editorVars, crop, handler, handled >>

\* editImage(base64Image, mimeType, prompt)
BackendEditImage ==
    /\ backend.pc = "idle"
    /\ \E file \in Files, text \in Prompts :
           backend' = callBackendApiEnter(
               Some([type |-> I2I, prompt |-> text,
                     image |-> Some([data |-> fileToImageFile(file).base64,
                                     mimeType |-> file.type])]))
    /\ BackendUnchanged

\* generateImageFromText(prompt)
BackendGenerateImageFromText ==
    /\ backend.pc = "idle"
    /\ \E text \in Prompts :
           backend' = callBackendApiEnter(
               Some([type |-> T2I, prompt |-> text, image |-> None]))
    /\ BackendUnchanged

\* fetch settles and callBackendApi runs to its end
BackendFetchSettles ==
    /\ backend.pc = "fetching"
    /\ \E reply \in Replies : backend' = callBackendApiSettles(backend, reply)
    /\ BackendUnchanged

BackendNext == BackendEditImage \/ BackendGenerateImageFromText \/ BackendFetchSettles

SpecBackend == BackendInit /\ [][BackendNext]_vars

\* the reply is an ok status with success true and a non-empty image
GoodReply(reply) ==
    /\ reply.network = None
    /\ reply.status \in 200..299
    /\ reply.body[1].kind = "object"
    /\ reply.body[1].success = Some(TRUE)
    /\ reply.body[1].image \notin {None, Some("")}

\* the reply carries an error text of the backend
ErrorTextProvided(reply) ==
    /\ reply.network = None
    /\ reply.body[1].kind = "object"
    /\ reply.body[1].error \notin {None, Some("")}

\* C19: callBackendApi fetches once and never again; it resolves with the
\* image of the reply exactly when the reply has an ok status, success true
\* and a non-empty image; on every other reply (non-ok status, success
\* false, no image, unreadable body, network failure) it rejects, and with
\* the error text of the backend when the reply carries one.
C19_BackendSingleAttempt ==
    backend # None =>
        /\ backend.fetches <= 1
        /\ backend.pc \in {"resolved", "rejected"} =>
               /\ backend.fetches = 1
               /\ backend.reply # None
               /\ (backend.pc = "resolved") <=> GoodReply(backend.reply[1])
               /\ backend.pc = "resolved" =>
                      /\ backend.value = backend.reply[1].body[1].image
                      /\ backend.thrown = None
               /\ backend.pc = "rejected" =>
                      /\ backend.value = None
                      /\ backend.thrown \notin {None, Some("")}
                      /\ ErrorTextProvided(backend.reply[1]) =>
                             backend.thrown = backend.reply[1].body[1].error

\* a 500 of the backend with its error text, and success and an image besides,
\* was rejected with that text
C19_Witness ==
    /\ backend # None /\ backend.pc = "rejected"
    /\ backend.reply[1].network = None
    /\ backend.reply[1].status = 500
    /\ backend.reply[1].body[1].success = Some(TRUE)
    /\ backend.reply[1].body[1].image = Some(DataUrl(PngA.inlineData[1]))
    /\ backend.thrown = Some("Gemini returned no candidates.")

(***************************************************************************)
(* The waits of the 4-attempt variant                                       *)
(***************************************************************************)
\* the sum of a sequence of delays
RECURSIVE SumOf(_)
SumOf(seq) == IF seq = << >> THEN 0 ELSE seq[1] + SumOf(SubSeq(seq, 2, Len(seq)))

\* withRetry of unnamed/part_001 with its default parameters, every
\* invocation having failed with a retryable error, has rejected
DefaultsExhausted ==
    /\ svc = SvcRef
    /\ frame.retries = DefaultRetries(SvcRef)
    /\ frame.initialDelay = DefaultInitialDelay(SvcRef)
    /\ AllAttemptsFailed
    /\ frame.pc = "rejected"

\* C20: with retries = 4 and initialDelay = 5000, when every attempt fails
\* with a retryable error the waits performed are 5 s, 10 s, 20 s and 40 s,
\* 75 s in all.
C20_WaitsCoverSeventyFiveSeconds ==
    DefaultsExhausted =>
        /\ frame.waits = << 5000, 10000, 20000, 40000 >>
        /\ SumOf(frame.waits) = 75000

\* what the code does: three waits, 35 s in all, between four invocations
DefaultWaitsAreThree ==
    DefaultsExhausted =>
        /\ frame.waits = << 5000, 10000, 20000 >>
        /\ SumOf(frame.waits) = 35000
        /\ frame.invoked = 4

(***************************************************************************)
(* Properties of the prompt and of the image-to-image-only editors          *)
(***************************************************************************)
\* C21: after any sequence of prompt edits (typing, clearing, choosing a
\* suggested prompt) the prompt the editor holds, and so every prompt a
\* submission sends, has at most 2000 characters, in every editor.
C21_PromptWithinLimit ==
    /\ Len(prompt) <= MaxPromptLength
    /\ Len(i2iPrompt) <= MaxPromptLength
    /\ Len(t2iPrompt) <= MaxPromptLength
    /\ \A k \in 1..Len(reqs) : Len(reqs[k].prompt) <= MaxPromptLength

\* C22: in the editor with Start Over whose file selection toggles isLoading
\* (src/SeoHead.tsx), at most one transform request is in flight at any
\* time, under every interleaving of submit, resetEditor, file selection and
\* request completion, handleSubmit being reached only while the Generate
\* button is enabled.
C22_SingleInFlightWithReset ==
    editor = EdSeo => Len(reqs) <= 1

\* C27: in the image-to-image-only editors, when an edited result is stored
\* a source image is present and the result was generated from that very
\* image (its base64 is what the call was given), under every interleaving
\* of submit, file selection, resetEditor and request completion.  Stated of
\* the state in which handleSubmit has just stored its result.
C27_ResultFromCurrentSource ==
    (editor \in SingleEditors /\ fin # None /\ fin[1].stored # None) =>
        /\ editedImage = fin[1].stored
        /\ originalImage # None
        /\ originalImage[1].base64 = fin[1].args.base64
        /\ originalImage[1].mimeType = fin[1].args.mimeType

(***************************************************************************)
(* Properties of a submission: what a rejection leaves alone, what a        *)
(* request keeps of the state it started from                               *)
(***************************************************************************)
\* C23: a submission rejected by validation changes only the error message:
\* the stored results, the source image, the prompts, the mode, the ratio
\* settings and isLoading stay as they were, and nothing is started.
C23_RejectionChangesOnlyError ==
    [][SubmitsInvalid =>
          /\ UNCHANGED << editedImage, i2iResult, t2iResult >>
          /\ UNCHANGED originalImage
          /\ UNCHANGED << prompt, i2iPrompt, t2iPrompt >>
          /\ UNCHANGED << mode, autoRatio, aspectRatio >>
          /\ UNCHANGED isLoading
          /\ UNCHANGED << reading, reqs >>
          /\ error' # None]_vars

\* a second submission, with the prompt emptied, was turned down while the
\* result of the first is stored
C23_Witness ==
    /\ editor = EdDual
    /\ mode = T2I
    /\ t2iPrompt = ""
    /\ t2iResult = Some("data:image/png;base64,AAAA")
    /\ error = Some("Please provide a prompt.")
    /\ submitCalls = 2
    /\ reqs = << >>

\* what a request that read mode m, prompt p and image img is to send
StartPayload(m, p, img) ==
    IF m = I2I
    THEN [fn |-> "editImage", base64 |-> img[1].base64,
          mimeType |-> img[1].mimeType, prompt |-> p]
    ELSE [fn |-> "generateImageFromText", base64 |-> "", mimeType |-> "", prompt |-> p]

\* the result stored for mode m after the step
SlotAfter(m) ==
    IF OnePrompt(editor) THEN editedImage' ELSE IF m = I2I THEN i2iResult' ELSE t2iResult'

\* a handleSubmit invocation got past its checks in this step
RequestStarts == Len(reqs') = Len(reqs) + 1

RequestImages ==
    { None,
      Some([data |-> "SRC1", mimeType |-> "image/png"]),
      Some([data |-> "", mimeType |-> "image/png"]),
      Some([data |-> "SRC1", mimeType |-> ""]) }
RequestBodies ==
    { None } \cup
    { Some([type |-> t, prompt |-> p, image |-> i]) :
          t \in {None, Some(I2I), Some(T2I), Some("upscale")},
          p \in {None, Some(""), Some("Add a pirate hat")},
          i \in RequestImages }
HandlerRequests ==
    [method : {"POST", "GET"}, keySet : BOOLEAN, body : RequestBodies]

\* what generateContent does for the handler: it throws, or it resolves with
\* a response whose candidates are absent or a list; a candidate has parts
\* or none (content absent)
Candidate(parts) == [parts |-> parts]
HandlerPartLists ==
    { << >>,
      << PngA >>,
      << TextPart("Here is your image."), JpegB >>,
      << InlinePart("image/png", "") >>,
      << InlinePart("image/png", ""), PngA >>,
      << InlinePart("image/png", ""), TextPart("I cannot do that.") >>,
      << TextPart("I cannot do that.") >>,
      << TextPart("") >>,
      << BarePart >> }
HandlerOutcomes ==
    { [kind |-> "throws", message |-> m, candidates |-> None] :
          m \in {"got status: 429 Too Many Requests", ""} }
    \cup { [kind |-> "responds", message |-> "", candidates |-> c] :
               c \in {None, Some(<< >>), Some(<< Candidate(None) >>)}
                     \cup { Some(<< Candidate(Some(ps)) >>) : ps \in HandlerPartLists }
                     \cup { Some(<< Candidate(Some(<< TextPart("No.") >>)),
                                    Candidate(Some(<< PngA >>)) >>) } }

\* res.status(status).json({ success, image, error })
JsonReply(status, success, image, errorText) ==
    [status |-> status, success |-> success, image |-> image, error |-> errorText]
ErrorReply(status, errorText) == JsonReply(status, None, None, Some(errorText))

\* `${type}` of a type that may be undefined
TypeText(type) == IF type = None THEN "undefined" ELSE type[1]

\* the catch of the handler: error.message || "Unknown Internal Server Error"
HandlerCaught(message) ==
    ErrorReply(500, IF message # "" THEN message ELSE "Unknown Internal Server Error")

\* the handler up to its await of generateContent: the reply it sends at
\* once, or None when it goes on to call the model
HandlerEarlyReply(req) ==
    IF req.method # "POST" THEN Some(ErrorReply(405, "Method Not Allowed"))
    ELSE IF ~req.keySet
    THEN Some(ErrorReply(500, "Server configuration error: GOOGLE_API_KEY is missing."))
    ELSE IF req.body = None
    THEN Some(HandlerCaught("Cannot destructure property 'type' of 'req.body' as it is undefined."))
    ELSE LET body == req.body[1]
         IN  IF body.prompt = None \/ body.prompt = Some("")
             THEN Some(ErrorReply(400, "Prompt is required."))
             ELSE IF body.type = Some(I2I)
             THEN IF \/ body.image = None
                     \/ body.image[1].data = ""
                     \/ body.image[1].mimeType = ""
                  THEN Some(ErrorReply(400, "Image data (base64/mimeType) is missing for image-to-image mode."))
                  ELSE None
             ELSE IF body.type = Some(T2I) THEN None
             ELSE Some(ErrorReply(400, "Invalid operation type: " \o TypeText(body.type)))

\* A plausible slip: the image is taken from the last candidate.
CandidatePartsOfLast(candidates) == candidates[Len(candidates)].parts
\* candidates[0].content?.parts
CandidateParts(candidates) == candidates[1].parts

\* the handler once generateContent has settled: the reply it sends
HandlerLateReply(outcome) ==
    IF outcome.kind = "throws" THEN HandlerCaught(outcome.message)
    ELSE IF outcome.candidates = None \/ outcome.candidates = Some(<< >>)
    THEN ErrorReply(500, "Gemini returned no candidates.")
    ELSE LET found == CandidateParts(outcome.candidates[1])
         IN  IF found = None \/ found = Some(<< >>)
             THEN ErrorReply(500, "Gemini returned no content parts.")
             ELSE LET parts == found[1]
                      images == {n \in 1..Len(parts) : parts[n].inlineData # None}
                      texts == {n \in 1..Len(parts) : HasText(parts[n])}
                  IN  IF images # {} /\ parts[FirstInlinePart(parts)].inlineData[1].data # ""
                      THEN JsonReply(200, Some(TRUE),
                                     Some(DataUrl(parts[FirstInlinePart(parts)].inlineData[1])),
                                     None)
                      ELSE IF texts # {}
                      THEN ErrorReply(400, "Model Refused: "
                               \o parts[CHOOSE n \in texts : \A m \in texts : n <= m].text[1])
                      ELSE HandlerCaught("Response contained neither image data nor text.")

\* handler(req, res) up to its first await, or to its end
handlerEnter(req) ==
    LET early == HandlerEarlyReply(req)
    IN  [req |-> req,
         pc |-> IF early = None THEN "calling" ELSE "done",
         modelCalls |-> IF early = None THEN 1 ELSE 0,
         outcome |-> None,
         replies |-> IF early = None THEN << >> ELSE << early[1] >>]

\* generateContent settles and the handler runs to its end
handlerModelSettles(h, outcome) ==
    [h EXCEPT !.pc = "done", !.outcome = Some(outcome),
              !.replies = Append(@, HandlerLateReply(outcome))]

HandlerIdle ==
    [req |-> None, pc |-> "idle", modelCalls |-> 0, outcome |-> None, replies |-> << >>]

HandlerInit ==
    /\ svc = SvcEnv /\ apiKeySet = TRUE
    /\ frame = withRetryEnter(0, 0) /\ opLog = << >>
    /\ call = NoCall
    /\ editor = EdMain
    /\ EditorInit
    /\ crop = None /\ backend = None /\ handled = None
    /\ handler = HandlerIdle

HandlerUnchanged ==
    UNCHANGED << configVars, retryVars, serviceVars, editorVars, crop, backend, handled >>

\* a request arrives at /api/gemini
HandlerReceives ==
    /\ handler.pc = "idle"
    /\ \E req \in HandlerRequests : handler' = handlerEnter(req)
    /\ HandlerUnchanged

\* generateContent settles
HandlerModelSettles ==
    /\ handler.pc = "calling"
    /\ \E outcome \in HandlerOutcomes : handler' = handlerModelSettles(handler, outcome)
    /\ HandlerUnchanged

HandlerNext == HandlerReceives \/ HandlerModelSettles

SpecHandler == HandlerInit /\ [][HandlerNext]_vars

\* the reply the handler sent
HandlerReply == handler.replies[1]

\* the request fails one of the handler's checks: the method is not POST, the
\* key is missing, the prompt is missing, the type is none of the two, or
\* image data is missing in image-to-image mode
RequestTurnedDown ==
    LET req == handler.req
    IN  \/ req.method # "POST"
        \/ ~req.keySet
        \/ req.body = None
        \/ req.body[1].prompt \in {None, Some("")}
        \/ req.body[1].type \notin {Some(I2I), Some(T2I)}
        \/ /\ req.body[1].type = Some(I2I)
           /\ \/ req.body[1].image = None
              \/ req.body[1].image[1].data = ""
              \/ req.body[1].image[1].mimeType = ""

\* the inline-data parts of the first candidate of the model's answer
FirstCandidateImages ==
    IF handler.outcome = None THEN << >>
    ELSE IF handler.outcome[1].kind # "responds" THEN << >>
    ELSE IF handler.outcome[1].candidates \in {None, Some(<< >>)} THEN << >>
    ELSE IF handler.outcome[1].candidates[1][1].parts = None THEN << >>
    ELSE SelectSeq(handler.outcome[1].candidates[1][1].parts[1],
                   LAMBDA part : part.inlineData # None)

\* what the claim says of a served request, the reply being a success
\* exactly when hasImage
HandlerContract(hasImage) ==
    /\ Len(handler.replies) = 1
    /\ handler.modelCalls <= 1
    /\ RequestTurnedDown => handler.modelCalls = 0 /\ handler.outcome = None
    /\ (HandlerReply.status = 200) <=> hasImage
    /\ HandlerReply.status = 200 =>
           /\ HandlerReply.success = Some(TRUE)
           /\ HandlerReply.image =
                  Some("data:" \o FirstCandidateImages[1].inlineData[1].mimeType
                       \o ";base64," \o FirstCandidateImages[1].inlineData[1].data)
           /\ HandlerReply.error = None
    /\ HandlerReply.status # 200 =>
           /\ HandlerReply.status \in 400..599
           /\ HandlerReply.success = None /\ HandlerReply.image = None
           /\ HandlerReply.error \notin {None, Some("")}

\* C25 as stated: the handler sends exactly one response on every path, it
\* replies 200 with {success: true, image: data URL} exactly when the model's
\* first candidate contains an inline-data part and with an error body and a
\* 4xx/5xx status otherwise, and it never calls the model for a request it
\* turns down.
C25_HandlerRepliesOnce ==
    /\ handler # None /\ handler.pc # "done" => handler.replies = << >>
    /\ handler # None /\ handler.pc = "done" =>
           HandlerContract(FirstCandidateImages # << >>)

\* C25 amended: as above, the reply being 200 exactly when the first
\* inline-data part of the model's first candidate carries data that is not
\* empty.
C25_HandlerRepliesOnceWithData ==
    /\ handler # None /\ handler.pc # "done" => handler.replies = << >>
    /\ handler # None /\ handler.pc = "done" =>
           HandlerContract(/\ FirstCandidateImages # << >>
                           /\ FirstCandidateImages[1].inlineData[1].data # "")

\* the model answered with two candidates, the first a text and the second an
\* image: the handler replied 400 with the refusal
C25_Witness ==
    /\ handler # None /\ handler.pc = "done"
    /\ handler.modelCalls = 1
    /\ handler.outcome # None
    /\ handler.outcome[1].kind = "responds"
    /\ handler.outcome[1].candidates # None
    /\ Len(handler.outcome[1].candidates[1]) = 2
    /\ handler.replies = << ErrorReply(400, "Model Refused: No.") >>

(***************************************************************************)
(* handleGeminiError on its own: an error is caught, handleGeminiError      *)
(* throws.  The errors are the ones generateContent throws, the ones the    *)
(* operation throws itself before its catch, an error with no message, and  *)
(* texts that carry a rate-limit marker together with a safety marker.      *)
(***************************************************************************)
RateLimitMarkers == {"429", "RESOURCE_EXHAUSTED", "Quota exceeded"}
SafetyMarkers == {"SAFETY", "blocked"}

CaughtMessages ==
    ProviderThrows
        \cup { "Model Refused: " \o t : t \in RefusalTexts }
        \cup { "No content generated", "No image data found in response", "" }
        \cup { "got status: " \o r \o ". The response was " \o s :
                   r \in RateLimitMarkers, s \in SafetyMarkers }
        \cup { s \o ": " \o r : s \in SafetyMarkers, r \in RateLimitMarkers }
        \cup { "Request failed: " \o JsonInternal, "{not json" }

ClassifyInit ==
    /\ svc \in Services /\ apiKeySet = TRUE
    /\ frame = withRetryEnter(0, 0) /\ opLog = << >>
    /\ call = NoCall
    /\ editor = EdMain
    /\ EditorInit
    /\ crop = None /\ backend = None /\ handler = None
    /\ \E m \in CaughtMessages : handled = [error |-> NewError(0, m), thrown |-> None]

\* catch (error) { handleGeminiError(error); }
HandleGeminiError ==
    /\ handled.thrown = None
    /\ handled' = [handled EXCEPT !.thrown = Some(HandledMessage(svc, handled.error))]
    /\ UNCHANGED << configVars, retryVars, serviceVars, editorVars, crop, backend, handler >>

ClassifyNext == HandleGeminiError

SpecClassify == ClassifyInit /\ [][ClassifyNext]_vars

\* the text of the error handleGeminiError was handed
CaughtText == MessageOrToString(handled.error)

\* the provider's own message in a text: the message field of the error body
\* when the text carries one, the text itself otherwise
ProviderMessageText(text) ==
    IF Includes(text, JsonUnavailable) THEN "The model is overloaded. Please try again later."
    ELSE IF Includes(text, JsonInternal) THEN "Internal error encountered."
    ELSE text

CarriesRateLimitMarker ==
    \/ \E r \in RateLimitMarkers : Includes(CaughtText, r)
    \/ svc = SvcRef /\ Includes(CaughtText, "Too Many Requests")
CarriesSafetyMarker == \E s \in SafetyMarkers : Includes(CaughtText, s)

(***************************************************************************)
(* C26: handleGeminiError classifies by a fixed precedence.  A text with a  *)
(* rate-limit marker is reported as the rate limit, also when it carries a  *)
(* safety marker as well; a text with a safety marker and no rate-limit     *)
(* marker is reported as the safety block; every other failure is thrown as *)
(* 'Generation Failed: ...' with the provider's message text in it.         *)
(***************************************************************************)
C26_ClassifiedByPrecedence ==
    (handled # None /\ handled.thrown # None) =>
        /\ CarriesRateLimitMarker => handled.thrown[1] = RateLimitMessage(svc)
        /\ (CarriesSafetyMarker /\ ~CarriesRateLimitMarker) =>
               handled.thrown[1] = SafetyMessage
        /\ (~CarriesSafetyMarker /\ ~CarriesRateLimitMarker) =>
               /\ StartsWith(handled.thrown[1], "Generation Failed: ")
               /\ Includes(handled.thrown[1], ProviderMessageText(CaughtText))

\* a text with both kinds of marker was reported as the rate limit
C26_Witness ==
    /\ handled # None /\ handled.thrown # None
    /\ CarriesRateLimitMarker /\ CarriesSafetyMarker
    /\ handled.thrown[1] = RateLimitMessage(svc)

\* the results the editor keeps: one, or one per mode
StoredResults ==
    IF OnePrompt(editor) THEN {editedImage} ELSE {i2iResult, t2iResult}

(***************************************************************************)
(* C28: whenever no request is in flight, a non-null error message and a    *)
(* non-null stored result do not coexist in the editor state.               *)
(***************************************************************************)
C28_ErrorExcludesResult ==
    (editor \in Editors /\ reqs = << >>) =>
        ~(error # None /\ \E stored \in StoredResults : stored # None)

\* a + b and a <= b for fractions
FracAdd(a, b) == Frac(a.num * b.den + b.num * a.den, a.den * b.den)
FracAtMost(a, b) == ~FracLess(b, a)

(***************************************************************************)
(* C29: for every source size W0 x H0 and every selectable ratio the crop   *)
(* rectangle of cropImage lies inside the source (x >= 0, y >= 0,           *)
(* x + cropW <= W0, y + cropH <= H0), cropW = W0 or cropH = H0, and when    *)
(* W0/H0 equals the target ratio the crop is the whole image.               *)
(***************************************************************************)
C29_CropInsideSource ==
    crop # None /\ crop.region # None =>
        LET W0 == Frac(crop.originalWidth, 1)
            H0 == Frac(crop.originalHeight, 1)
            g == crop.region[1]
        IN  /\ FracAtMost(Frac(0, 1), g.cropX) /\ FracAtMost(Frac(0, 1), g.cropY)
            /\ FracAtMost(FracAdd(g.cropX, g.cropWidth), W0)
            /\ FracAtMost(FracAdd(g.cropY, g.cropHeight), H0)
            /\ FracEq(g.cropWidth, W0) \/ FracEq(g.cropHeight, H0)
            /\ FracEq(Frac(crop.originalWidth, crop.originalHeight),
                      RatioOf(crop.targetRatioString)) =>
                   /\ FracEq(g.cropWidth, W0) /\ FracEq(g.cropHeight, H0)
                   /\ FracEq(g.cropX, Frac(0, 1)) /\ FracEq(g.cropY, Frac(0, 1))

\* a 1920x1080 image cropped to 16:9: the whole image
C29_Witness ==
    /\ crop # None /\ crop.region # None
    /\ crop.originalWidth = 1920 /\ crop.originalHeight = 1080
    /\ crop.targetRatioString = "16:9"
    /\ crop.region[1].cropWidth = Frac(1920, 1)
    /\ FracEq(crop.region[1].cropHeight, Frac(1080, 1))
    /\ FracEq(crop.region[1].cropY, Frac(0, 1))

(***************************************************************************)
(* C30: in services/geminiService.ts with no API key configured, editImage  *)
(* and generateImageFromText reject with 'API Key not configured' without   *)
(* a remote call, without entering withRetry and without a wait; the        *)
(* submission ends in the step it began in, the editor records that message *)
(* and is not loading, and nothing is ever awaiting the provider.           *)
(***************************************************************************)
C30_NoKeyRejectsAtOnce ==
    (svc = SvcEnv /\ ~apiKeySet /\ editor \in Editors) =>
        /\ \A fn \in {"editImage", "generateImageFromText"} :
               \E c \in {ServiceEnter(svc, apiKeySet, fn)} :
                   /\ c.pc = "rejected"
                   /\ c.thrown # None /\ c.thrown[1].message = "API Key not configured"
                   /\ c.remoteCalls = 0 /\ c.retry = None /\ CallWaits(c) = << >>
        /\ reqs = << >>
        /\ isLoading = FALSE
        /\ fin # None =>
               /\ fin[1].lastOutcome = None /\ fin[1].returned = None
               /\ fin[1].crops = 0 /\ fin[1].stored = None
               /\ fin[1].shown = Some("API Key not configured")
               /\ error = Some("API Key not configured")

\* a submission that passed the checks of handleSubmit ended on the missing key
C30_Witness ==
    /\ svc = SvcEnv /\ ~apiKeySet
    /\ fin # None /\ fin[1].args.prompt = "Add a pirate hat"
    /\ error = Some("API Key not configured")
    /\ isLoading = FALSE /\ reqs = << >>

====
